---- MODULE Spec2Model ----
(***************************************************************************)
(* yieldbasis_historical_yield.py as a state machine.                      *)
(*                                                                         *)
(* The script is sequential.  It is cut at its remote calls: one action    *)
(* per attempt of a read helper (the remote response is the action's       *)
(* input) and one action per straight-line segment of the caller between   *)
(* two helper calls.  pc is the position of the script.                    *)
(*                                                                         *)
(* Durations are in tenths of a second, so that QUERY_COOLDOWN = 0.5 s is  *)
(* the integer 5 and attempt*30 s is attempt*300.                          *)
(* Python floats are modelled as exact rationals <<numerator, denominator>>*)
(***************************************************************************)
EXTENDS Integers, Sequences, FiniteSets, TLC

\* ------------------------------------------------------------------ bounds
\* Number of whole strides below the largest head block considered.
MaxStrides == 2
\* Number of configured (pool, address) pairs in addresses_to_check.
NumPairs == 2

\* ------------------------------------------------------- program constants
MAX_DAYS_TO_PARSE == 0
QUERY_COOLDOWN == 5
BACKOFF_UNIT == 300
LAST_ATTEMPT == 3
\* blocks_per_day for a block time of 24 seconds.
blocks_per_dayHalved == (24 * 60 * 60) \div 24

blocks_per_day == (24 * 60 * 60) \div 12
SECONDS_PER_DAY == 24 * 60 * 60
NO_DATA_CODES == {-32000, -32603}

TMR == "Too Many Requests"
DEC == "Could not decode contract function"

\* ------------------------------------------------------------ environment

\* The chain's timestamp of a block (12 s per block).
ChainTimestamp(b) == 1000000 + 12 * b

\* Index of a block of the walk, counted from the head.
StrideIndex(head, b) == (head - b) \div blocks_per_day

\* What the chain holds for pair i: a share balance, and the redemption
\* value of it at the k-th block below the head (100, 90, 80, ... for the
\* first pair, 200, 180, 160, ... for the second).
ChainShares(i) == 7 * i
ChainValue(i, k) == i * (100 - 10 * k)

\* A remote response: a value, or an exception with its message markers and
\* its `code` attribute (has_code = FALSE: the exception has none).
Ok(v) == [ok |-> TRUE, val |-> v, msg |-> {}, has_code |-> FALSE, code |-> 0]
Err(m, h, c) == [ok |-> FALSE, val |-> 0, msg |-> m, has_code |-> h, code |-> c]

Errors ==
    {Err(m, FALSE, 0) : m \in {{}, {TMR}, {DEC}}}
        \cup {Err(m, TRUE, c) : m \in {{}, {TMR}, {DEC}}, c \in {-32000, -32603, -32005}}

TimestampResponses(b) == {Ok(ChainTimestamp(b))} \cup Errors
SharesResponses(i) == {Ok(0), Ok(ChainShares(i))} \cup Errors
WithdrawResponses(i, k) == {Ok(0), Ok(ChainValue(i, k))} \cup Errors

\* ------------------------------------------------------------------ state
VARIABLES
    pc,                             \* position of the script
    idx,                            \* number of the (pool, address) pair being handled
    max_days,                       \* MAX_DAYS_TO_PARSE
    current_block,
    current_block_timestamp,
    block_number,
    block_timestamp,
    shares_balance,
    withdraw_amount,
    current_value,
    oldest_parsed_value,
    oldest_parsed_block_timestamp,
    samples,                        \* the samples recorded by the current walk
    out,                            \* lines printed since the current pair's header
    fn,                             \* read helper running, or the last one that ran
    fn_block,                       \* its block_number argument
    ret_to,                         \* where it returns to
    attempt,                        \* its loop variable
    resps,                          \* the remote responses it got, in order
    sleeps,                         \* the durations it slept, in order
    ret,                            \* its return value
    slept                           \* durations slept since the last remote query

\* Head block numbers get_block_number may report.  With a maximum lookback
\* of N days the heads go N strides deeper, so that a walk can reach a block
\* older than the lookback.
Heads == {blocks_per_day * k + 100 : k \in 0..(MaxStrides + max_days)}

acc == <<current_value, oldest_parsed_value, oldest_parsed_block_timestamp>>
head == <<current_block, current_block_timestamp, max_days>>
walk == <<block_number, block_timestamp, shares_balance, withdraw_amount>>
frame == <<fn, fn_block, ret_to, attempt, resps, sleeps, ret>>
vars == <<pc, idx, head, walk, acc, samples, out, frame, slept>>

\* ---------------------------------------------------------------- helpers
Last(s) == s[Len(s)]

Abs(n) == IF n < 0 THEN -n ELSE n

RECURSIVE Gcd(_, _)
Gcd(a, b) == IF b = 0 THEN a ELSE Gcd(b, a % b)

\* A float, as a rational in lowest terms with a positive denominator.
Rat(n, d) ==
    LET g == Gcd(Abs(n), Abs(d))
        s == IF d < 0 THEN -1 ELSE 1
    IN  <<(s * n) \div g, (s * d) \div g>>

\* Python's true division x / y of two numbers; the caller has excluded y = 0.
Div(x, y) == Rat(x[1] * y[2], x[2] * y[1])
Mul(x, y) == Rat(x[1] * y[1], x[2] * y[2])
Num(n) == <<n, 1>>

\* A printed line.  Fields a line does not print are 0.
Line(kind, b, d) ==
    [kind |-> kind, block |-> b, date |-> d, shares |-> 0, value |-> 0,
     gain |-> 0, days |-> Num(0), apr |-> Num(0)]

\* timestamp_to_date: 'unknown' for 0, otherwise the date to the minute.
timestamp_to_date(timestamp) ==
    IF timestamp = 0 THEN <<"unknown">> ELSE <<"date", timestamp \div 60>>

\* get_web3_error_code finding no code on any exception.
get_web3_error_codeNone(error) == <<>>

\* get_web3_error_code: the exception's `code` attribute when it has one;
\* otherwise json.loads(error) raises on an exception object and the bare
\* except returns None (the empty sequence here).
get_web3_error_code(error) ==
    IF error.has_code THEN <<error.code>> ELSE <<>>

\* Outcome of one iteration of a helper's retry loop.
Return(v) == [done |-> TRUE, ret |-> v, sleep |-> <<>>]

\* FallThrough with the loop running one iteration too many (range(1, 5)).
FallThroughOffByOne(a, sl) ==
    IF a + 1 <= LAST_ATTEMPT + 1
    THEN [done |-> FALSE, ret |-> 0, sleep |-> sl]
    ELSE [done |-> TRUE, ret |-> 0, sleep |-> sl]

\* The except branch slept `sl` (or not) and fell through to the loop's next
\* iteration; after the last iteration the function reaches its final
\* `return 0`.
FallThrough(a, sl) ==
    IF a + 1 <= LAST_ATTEMPT
    THEN [done |-> FALSE, ret |-> 0, sleep |-> sl]
    ELSE [done |-> TRUE, ret |-> 0, sleep |-> sl]

\* Backoff with a constant delay instead of a linear one.
BackoffConstant(a) == BACKOFF_UNIT + QUERY_COOLDOWN

\* sleep(attempt*30 + QUERY_COOLDOWN)
Backoff(a) == a * BACKOFF_UNIT + QUERY_COOLDOWN

\* get_block_timestamp retrying after any error.
get_block_timestampRetriesAll(a, r) ==
    IF r.ok THEN Return(r.val)
    ELSE IF TMR \in r.msg THEN FallThrough(a, <<Backoff(a)>>)
    ELSE FallThrough(a, <<>>)

\* One iteration of get_block_timestamp's loop on response r.
get_block_timestamp(a, r) ==
    IF r.ok THEN Return(r.val)
    ELSE IF TMR \in r.msg THEN FallThrough(a, <<Backoff(a)>>)
    ELSE Return(0)

\* get_shares_balance reporting a decode failure as missing data.
get_shares_balanceDecodeAsNoData(a, r) ==
    IF r.ok THEN Return(r.val)
    ELSE IF TMR \in r.msg THEN FallThrough(a, <<Backoff(a)>>)
    ELSE IF DEC \in r.msg THEN Return(-1)
    ELSE LET eroror_code == get_web3_error_code(r)
         IN  IF eroror_code # <<>> /\ eroror_code[1] \in NO_DATA_CODES
             THEN Return(-1)
             ELSE FallThrough(a, <<>>)

\* get_shares_balance retrying after a decode failure instead of returning 0.
get_shares_balanceDecodeRetries(a, r) ==
    IF r.ok THEN Return(r.val)
    ELSE IF TMR \in r.msg \/ DEC \in r.msg THEN FallThrough(a, <<Backoff(a)>>)
    ELSE LET eroror_code == get_web3_error_code(r)
         IN  IF eroror_code # <<>> /\ eroror_code[1] \in NO_DATA_CODES
             THEN Return(-1)
             ELSE FallThrough(a, <<>>)

\* One iteration of get_shares_balance's loop on response r.
get_shares_balance(a, r) ==
    IF r.ok THEN Return(r.val)
    ELSE IF TMR \in r.msg THEN FallThrough(a, <<Backoff(a)>>)
    ELSE IF DEC \in r.msg THEN Return(0)
    ELSE LET eroror_code == get_web3_error_code(r)
         IN  IF eroror_code # <<>> /\ eroror_code[1] \in NO_DATA_CODES
             THEN Return(-1)
             ELSE FallThrough(a, <<>>)

\* get_withdraw_amount looking at the error code before the message.
get_withdraw_amountCodeFirst(a, r) ==
    IF r.ok THEN Return(r.val)
    ELSE LET eroror_code == get_web3_error_code(r)
         IN  IF eroror_code # <<>> /\ eroror_code[1] \in NO_DATA_CODES
             THEN Return(-1)
             ELSE IF TMR \in r.msg THEN FallThrough(a, <<Backoff(a)>>)
             ELSE IF DEC \in r.msg THEN Return(0)
             ELSE FallThrough(a, <<>>)

\* get_withdraw_amount giving up on a rate limit at the last attempt without
\* sleeping.
get_withdraw_amountNoLastBackoff(a, r) ==
    IF r.ok THEN Return(r.val)
    ELSE IF TMR \in r.msg
         THEN FallThrough(a, IF a < LAST_ATTEMPT THEN <<Backoff(a)>> ELSE <<>>)
    ELSE IF DEC \in r.msg THEN Return(0)
    ELSE LET eroror_code == get_web3_error_code(r)
         IN  IF eroror_code # <<>> /\ eroror_code[1] \in NO_DATA_CODES
             THEN Return(-1)
             ELSE FallThrough(a, <<>>)

\* One iteration of get_withdraw_amount's loop on response r.
get_withdraw_amount(a, r) ==
    IF r.ok THEN Return(r.val)
    ELSE IF TMR \in r.msg THEN FallThrough(a, <<Backoff(a)>>)
    ELSE IF DEC \in r.msg THEN Return(0)
    ELSE LET eroror_code == get_web3_error_code(r)
         IN  IF eroror_code # <<>> /\ eroror_code[1] \in NO_DATA_CODES
             THEN Return(-1)
             ELSE FallThrough(a, <<>>)

\* ------------------------------------------------------------------- Init
Init ==
    /\ pc = "start"
    /\ idx = 0
    /\ max_days = MAX_DAYS_TO_PARSE
    /\ current_block = 0
    /\ current_block_timestamp = 0
    /\ block_number = 0
    /\ block_timestamp = 0
    /\ shares_balance = 0
    /\ withdraw_amount = 0
    /\ current_value = 0
    /\ oldest_parsed_value = 0
    /\ oldest_parsed_block_timestamp = 0
    /\ samples = <<>>
    /\ out = <<>>
    /\ fn = "none"
    /\ fn_block = 0
    /\ ret_to = "none"
    /\ attempt = 1
    /\ resps = <<>>
    /\ sleeps = <<>>
    /\ ret = 0
    /\ slept = <<>>

\* The cooldown left out.
CooldownSkipped(s) == s

\* sleep(QUERY_COOLDOWN), added to the durations slept since the last query.
Cooldown(s) == Append(s, QUERY_COOLDOWN)

\* Enter a read helper: its loop starts at attempt 1.
Call(f, b, to) ==
    /\ pc' = "call"
    /\ fn' = f
    /\ fn_block' = b
    /\ ret_to' = to
    /\ attempt' = 1
    /\ resps' = <<>>
    /\ sleeps' = <<>>
    /\ ret' = 0

\* One attempt of the running helper with outcome o on response r.
Attempt(r, o) ==
    /\ resps' = Append(resps, r)
    /\ sleeps' = sleeps \o o.sleep
    /\ slept' = o.sleep
    /\ IF o.done
       THEN /\ pc' = ret_to
            /\ ret' = o.ret
            /\ attempt' = attempt
       ELSE /\ pc' = "call"
            /\ ret' = ret
            /\ attempt' = attempt + 1
    /\ UNCHANGED <<fn, fn_block, ret_to>>

\* ---------------------------------------------------------------- actions
\* current_block = w3.eth.get_block_number(): not guarded, an exception
\* ends the script.  Otherwise get_block_timestamp(w3, current_block) is
\* entered at once.
GetBlockNumber ==
    /\ pc = "start"
    /\ \/ \E h \in Heads :
            /\ current_block' = h
            /\ Call("get_block_timestamp", h, "head_ret")
       \/ /\ pc' = "aborted"
          /\ UNCHANGED <<current_block, frame>>
    /\ slept' = <<>>
    /\ UNCHANGED <<idx, max_days, current_block_timestamp, walk, acc, samples, out>>

TimestampAttempt ==
    /\ pc = "call"
    /\ fn = "get_block_timestamp"
    /\ \E r \in TimestampResponses(fn_block) :
            Attempt(r, get_block_timestamp(attempt, r))
    /\ UNCHANGED <<idx, head, walk, acc, samples, out>>

SharesAttempt ==
    /\ pc = "call"
    /\ fn = "get_shares_balance"
    /\ \E r \in SharesResponses(idx) :
            Attempt(r, get_shares_balance(attempt, r))
    /\ UNCHANGED <<idx, head, walk, acc, samples, out>>

WithdrawAttempt ==
    /\ pc = "call"
    /\ fn = "get_withdraw_amount"
    /\ \E r \in WithdrawResponses(idx, StrideIndex(current_block, fn_block)) :
            Attempt(r, get_withdraw_amount(attempt, r))
    /\ UNCHANGED <<idx, head, walk, acc, samples, out>>

\* The head's timestamp is back: print the head, cool down.
HeadResolved ==
    /\ pc = "head_ret"
    /\ current_block_timestamp' = ret
    /\ out' = Append(out, Line("head", current_block, timestamp_to_date(ret)))
    /\ slept' = Cooldown(slept)
    /\ pc' = "next"
    /\ UNCHANGED <<idx, current_block, max_days, walk, acc, samples, frame>>

\* The first block of range(current_block, 0, -blocks_per_day), if any.
EnterLoop(b) ==
    IF b > 0
    THEN /\ block_number' = b
         /\ Call("get_block_timestamp", b, "ts_ret")
    ELSE /\ pc' = "report"
         /\ UNCHANGED <<block_number, frame>>

\* StartAddress without the reset of the accumulator.
StartAddressNoReset ==
    /\ pc = "next"
    /\ idx < NumPairs
    /\ idx' = idx + 1
    /\ out' = <<Line("header", 0, <<>>)>>
    /\ samples' = <<>>
    /\ EnterLoop(current_block)
    /\ UNCHANGED <<head, block_timestamp, shares_balance, withdraw_amount, slept, acc>>

\* Next (pool, address) pair: header, accumulator reset, first block.
StartAddress ==
    /\ pc = "next"
    /\ idx < NumPairs
    /\ idx' = idx + 1
    /\ out' = <<Line("header", 0, <<>>)>>
    /\ current_value' = 0
    /\ oldest_parsed_value' = 0
    /\ oldest_parsed_block_timestamp' = 0
    /\ samples' = <<>>
    /\ EnterLoop(current_block)
    /\ UNCHANGED <<head, block_timestamp, shares_balance, withdraw_amount, slept>>

\* All pairs handled: the script ends.
Finish ==
    /\ pc = "next"
    /\ idx = NumPairs
    /\ pc' = "done"
    /\ UNCHANGED <<idx, head, walk, acc, samples, out, frame, slept>>

\* AfterTimestamp with the lookback one day short (MAX_DAYS_TO_PARSE days
\* instead of MAX_DAYS_TO_PARSE + 1).
AfterTimestampDayShort ==
    /\ pc = "ts_ret"
    /\ block_timestamp' = ret
    /\ IF /\ max_days > 0
          /\ current_block_timestamp - ret >= max_days * SECONDS_PER_DAY + 1000
       THEN /\ pc' = "report"
            /\ UNCHANGED frame
       ELSE Call("get_shares_balance", block_number, "shares_ret")
    /\ UNCHANGED <<idx, head, block_number, shares_balance, withdraw_amount,
                   acc, samples, out, slept>>

\* block_timestamp is back.  With a maximum lookback, a block too old ends
\* the walk before its balance is read.
AfterTimestamp ==
    /\ pc = "ts_ret"
    /\ block_timestamp' = ret
    /\ IF /\ max_days > 0
          /\ current_block_timestamp - ret >= (max_days + 1) * SECONDS_PER_DAY + 1000
       THEN /\ pc' = "report"
            /\ UNCHANGED frame
       ELSE Call("get_shares_balance", block_number, "shares_ret")
    /\ UNCHANGED <<idx, head, block_number, shares_balance, withdraw_amount,
                   acc, samples, out, slept>>

\* The line printed when a read returned the no-data sentinel.
NoDataNote == Line("no_data", block_number, timestamp_to_date(block_timestamp))

\* AfterShares with the no-data note printed for every stop.
AfterSharesAlwaysNote ==
    /\ pc = "shares_ret"
    /\ shares_balance' = ret
    /\ IF ret <= 0
       THEN /\ out' = Append(out, NoDataNote)
            /\ pc' = "report"
            /\ UNCHANGED frame
       ELSE /\ out' = out
            /\ Call("get_withdraw_amount", block_number, "withdraw_ret")
    /\ UNCHANGED <<idx, head, block_number, block_timestamp, withdraw_amount,
                   acc, samples, slept>>

\* AfterShares with the sentinel taken for a balance (ret = 0 as the only stop).
AfterSharesSentinelAsBalance ==
    /\ pc = "shares_ret"
    /\ shares_balance' = ret
    /\ IF ret = 0
       THEN /\ out' = out
            /\ pc' = "report"
            /\ UNCHANGED frame
       ELSE /\ out' = out
            /\ Call("get_withdraw_amount", block_number, "withdraw_ret")
    /\ UNCHANGED <<idx, head, block_number, block_timestamp, withdraw_amount,
                   acc, samples, slept>>

\* shares_balance is back: a value <= 0 ends the walk, -1 with a note.
AfterShares ==
    /\ pc = "shares_ret"
    /\ shares_balance' = ret
    /\ IF ret <= 0
       THEN /\ out' = IF ret = -1 THEN Append(out, NoDataNote) ELSE out
            /\ pc' = "report"
            /\ UNCHANGED frame
       ELSE /\ out' = out
            /\ Call("get_withdraw_amount", block_number, "withdraw_ret")
    /\ UNCHANGED <<idx, head, block_number, block_timestamp, withdraw_amount,
                   acc, samples, slept>>

\* Accumulate with current_value overwritten by every sample.
AccumulateOverwriteCurrent(cv, w, t) ==
    [current_value |-> w,
     oldest_parsed_value |-> w,
     oldest_parsed_block_timestamp |-> t]

\* The accumulator after a sample of value w taken at timestamp t.
Accumulate(cv, w, t) ==
    [current_value |-> IF cv = 0 THEN w ELSE cv,
     oldest_parsed_value |-> w,
     oldest_parsed_block_timestamp |-> t]

\* The line printed for a sample.
SampleLine ==
    [Line("sample", block_number, timestamp_to_date(block_timestamp))
        EXCEPT !.shares = shares_balance, !.value = ret]

\* withdraw_amount is back: a value <= 0 ends the walk, -1 with a note;
\* otherwise the sample is printed and recorded, the script cools down and
\* the loop moves one stride down, or ends below block 1.
AfterWithdraw ==
    /\ pc = "withdraw_ret"
    /\ withdraw_amount' = ret
    /\ IF ret <= 0
       THEN /\ out' = IF ret = -1 THEN Append(out, NoDataNote) ELSE out
            /\ pc' = "report"
            /\ UNCHANGED <<acc, samples, slept, block_number, frame>>
       ELSE LET a == Accumulate(current_value, ret, block_timestamp)
            IN  /\ current_value' = a.current_value
                /\ oldest_parsed_value' = a.oldest_parsed_value
                /\ oldest_parsed_block_timestamp' = a.oldest_parsed_block_timestamp
                /\ out' = Append(out, SampleLine)
                /\ samples' = Append(samples,
                        [block |-> block_number, timestamp |-> block_timestamp,
                         shares |-> shares_balance, value |-> ret])
                /\ slept' = Cooldown(slept)
                /\ IF block_number - blocks_per_day > 0
                   THEN /\ block_number' = block_number - blocks_per_day
                        /\ Call("get_block_timestamp", block_number', "ts_ret")
                   ELSE /\ pc' = "report"
                        /\ UNCHANGED <<block_number, frame>>
    /\ UNCHANGED <<idx, head, block_timestamp, shares_balance>>

\* YieldReport guarded on the oldest value alone.
YieldReportValueGuardOnly(cv, ov, ot, cbt) ==
    IF ~(ov > 0)
    THEN [raised |-> FALSE, lines |-> <<>>]
    ELSE LET parsed_days == Rat(cbt - ot, SECONDS_PER_DAY)
             parsed_gain == cv - ov
         IN  IF parsed_days[1] = 0
             THEN [raised |-> TRUE, lines |-> <<>>]
             ELSE [raised |-> FALSE,
                   lines |-> <<[Line("report", 0, <<>>) EXCEPT
                       !.gain = parsed_gain,
                       !.days = parsed_days,
                       !.apr = Mul(Div(Div(Num(parsed_gain), Num(ov)), parsed_days),
                                   Num(365))]>>]

\* The yield report of one pair: nothing when no value or no timestamp was
\* kept; a ZeroDivisionError when the elapsed days are 0; the line otherwise.
YieldReport(cv, ov, ot, cbt) ==
    IF ~(ov > 0 /\ ot > 0)
    THEN [raised |-> FALSE, lines |-> <<>>]
    ELSE LET parsed_days == Rat(cbt - ot, SECONDS_PER_DAY)
             parsed_gain == cv - ov
         IN  IF parsed_days[1] = 0
             THEN [raised |-> TRUE, lines |-> <<>>]
             ELSE [raised |-> FALSE,
                   lines |-> <<[Line("report", 0, <<>>) EXCEPT
                       !.gain = parsed_gain,
                       !.days = parsed_days,
                       !.apr = Mul(Div(Div(Num(parsed_gain), Num(ov)), parsed_days),
                                   Num(365))]>>]

\* After the walk: the report, then the cooldown; an exception raised by
\* the report is not caught and ends the script.
Report ==
    /\ pc = "report"
    /\ LET y == YieldReport(current_value, oldest_parsed_value,
                            oldest_parsed_block_timestamp, current_block_timestamp)
       IN  IF y.raised
           THEN /\ pc' = "aborted"
                /\ UNCHANGED <<out, slept>>
           ELSE /\ pc' = "next"
                /\ out' = out \o y.lines
                /\ slept' = Cooldown(slept)
    /\ UNCHANGED <<idx, head, walk, acc, samples, frame>>

Next ==
    \/ GetBlockNumber
    \/ TimestampAttempt
    \/ SharesAttempt
    \/ WithdrawAttempt
    \/ HeadResolved
    \/ StartAddress
    \/ Finish
    \/ AfterTimestamp
    \/ AfterShares
    \/ AfterWithdraw
    \/ Report

Spec == Init /\ [][Next]_vars

\* The script with MAX_DAYS_TO_PARSE edited to a positive number of days, or
\* left as it is.
InitLookback ==
    /\ max_days \in {MAX_DAYS_TO_PARSE, MAX_DAYS_TO_PARSE + 1}
    /\ pc = "start"
    /\ idx = 0
    /\ current_block = 0
    /\ current_block_timestamp = 0
    /\ block_number = 0
    /\ block_timestamp = 0
    /\ shares_balance = 0
    /\ withdraw_amount = 0
    /\ current_value = 0
    /\ oldest_parsed_value = 0
    /\ oldest_parsed_block_timestamp = 0
    /\ samples = <<>>
    /\ out = <<>>
    /\ fn = "none"
    /\ fn_block = 0
    /\ ret_to = "none"
    /\ attempt = 1
    /\ resps = <<>>
    /\ sleeps = <<>>
    /\ ret = 0
    /\ slept = <<>>

SpecLookback == InitLookback /\ [][Next]_vars

\* ================================================================ claims
IsRateLimit(r) == ~r.ok /\ TMR \in r.msg
IsDecodeFailure(r) == ~r.ok /\ DEC \in r.msg
HasNoDataCode(r) == ~r.ok /\ r.has_code /\ r.code \in {-32000, -32603}

\* A read helper has returned and its caller has not yet moved on.
Returned == pc \in {"head_ret", "ts_ret", "shares_ret", "withdraw_ret"}

\* C1: one helper call issues at most 3 remote attempts and then returns:
\* a call never holds a fourth response, and once it holds three the helper
\* has returned (it is not about to issue another attempt).
C1_AtMostThreeAttempts ==
    /\ Len(resps) <= 3
    /\ Len(resps) = 3 => pc # "call"
    /\ pc = "call" => attempt = Len(resps) + 1

\* Every helper is seen returning after three failed attempts.
C1_Witness ==
    /\ Returned
    /\ Len(resps) = 3
    /\ \A j \in 1..3 : ~resps[j].ok
    /\ fn = "get_withdraw_amount"

\* C2: when the first k attempts (k = 0, 1, 2) of a helper call fail with a
\* rate-limit signal and attempt k+1 succeeds, the helper has slept exactly
\* k times, for attempt*30 s + cooldown at each failed attempt (strictly
\* increasing), and returns the successful attempt's value unchanged.
C2_RateLimitedThenSuccess ==
    \A k \in 0..2 :
        ( /\ Len(resps) = k + 1
          /\ \A j \in 1..k : IsRateLimit(resps[j])
          /\ resps[k + 1].ok )
        => /\ pc # "call"
           /\ Len(sleeps) = k
           /\ \A j \in 1..k : sleeps[j] = j * 300 + QUERY_COOLDOWN
           /\ \A j \in 1..k : j > 1 => sleeps[j] > sleeps[j - 1]
           /\ ret = resps[k + 1].val

\* Rate-limited on attempts 1 and 2, success on attempt 3.
C2_Witness ==
    /\ Returned
    /\ fn = "get_shares_balance"
    /\ Len(resps) = 3
    /\ IsRateLimit(resps[1]) /\ IsRateLimit(resps[2])
    /\ resps[3].ok /\ resps[3].val > 0
    /\ Len(sleeps) = 2

\* Number of no-data notes among the lines.
RECURSIVE NoteCount(_)
NoteCount(lines) ==
    IF lines = <<>> THEN 0
    ELSE (IF Last(lines).kind = "no_data" THEN 1 ELSE 0)
            + NoteCount(SubSeq(lines, 1, Len(lines) - 1))

\* The walk of the current pair is over.
WalkOver == pc \in {"report", "next", "aborted", "done"}

\* C3: when the share-balance read or the redemption-value read of a block
\* returns the no-data sentinel -1, the walk stops: the step that consumes it
\* records no sample and leaves the accumulator alone, emits the note for
\* that block (the only note of the pair's output) and ends the walk; and
\* once the walk of a pair is over, no read is issued and no note printed
\* for that pair any more.
C3_NoDataStopsWalk ==
    [][ /\ (pc \in {"shares_ret", "withdraw_ret"} /\ ret = -1)
            => /\ pc' = "report"
               /\ samples' = samples
               /\ acc' = acc
               /\ out' = Append(out,
                     Line("no_data", fn_block, timestamp_to_date(block_timestamp)))
               /\ NoteCount(out') = 1
               /\ \A j \in 1..Len(samples) : samples[j].block # fn_block
        /\ (WalkOver /\ idx' = idx)
            => /\ WalkOver'
               /\ resps' = resps
               /\ NoteCount(out') = NoteCount(out)
      ]_vars

\* The walk has stopped on a no-data sentinel after recording a sample, with
\* blocks left below.
C3_Witness ==
    /\ pc = "report"
    /\ fn = "get_withdraw_amount"
    /\ ret = -1
    /\ Len(samples) = 1
    /\ fn_block - blocks_per_day > 0
    /\ NoteCount(out) = 1

\* C4: when the share-balance read or the redemption-value read of a block
\* returns 0, the step that consumes it ends the walk, prints nothing (no
\* no-data note) and records no sample.
C4_ZeroStopsSilently ==
    [][ (pc \in {"shares_ret", "withdraw_ret"} /\ ret = 0)
            => /\ pc' = "report"
               /\ out' = out
               /\ samples' = samples
               /\ acc' = acc
      ]_vars

\* The walk has stopped on a zero share balance after recording a sample.
C4_Witness ==
    /\ pc = "report"
    /\ fn = "get_shares_balance"
    /\ ret = 0
    /\ Len(resps) = 1 /\ resps[1].ok
    /\ Len(samples) = 1
    /\ NoteCount(out) = 0

\* C5 as stated: for each of the three reads, an attempt failing with code
\* -32000 or -32603 makes the helper return -1 on that very attempt.
C5_NoDataOnEveryRead ==
    (resps # <<>> /\ HasNoDataCode(Last(resps)))
        => (pc # "call" /\ ret = -1)

\* C5, amended: in get_shares_balance and get_withdraw_amount, an attempt
\* failing with code -32000 or -32603 and a message that is neither a
\* rate-limit nor a decode-failure signal makes the helper return -1 on that
\* very attempt, with no sleep; get_block_timestamp has no no-data sentinel
\* and returns 0 on that attempt instead.
C5_NoDataSentinel ==
    (resps # <<>> /\ HasNoDataCode(Last(resps))
        /\ ~IsRateLimit(Last(resps)) /\ ~IsDecodeFailure(Last(resps)))
        => /\ pc # "call"
           /\ ret = IF fn = "get_block_timestamp" THEN 0 ELSE -1
           /\ Returned => slept = <<>>

\* get_withdraw_amount returns the sentinel on its second attempt.
C5_Witness ==
    /\ Returned
    /\ fn = "get_withdraw_amount"
    /\ Len(resps) = 2
    /\ HasNoDataCode(resps[2]) /\ resps[2].msg = {}
    /\ ret = -1

\* C6: no error is fatal: the script is never ended by an exception while
\* the (pool, address) pairs are being handled.
C6_NoFatalError ==
    pc = "aborted" => idx = 0

\* The yield report of the current pair has been attempted.
PostReport == idx >= 1 /\ pc \in {"next", "done", "aborted"}

HasReport == \E j \in 1..Len(out) : out[j].kind = "report"

\* C7 as stated: whenever the oldest sampled value is 0 or the elapsed days
\* are 0, the computation ends in an explicit failure.
C7_GuardFailsExplicitly ==
    (PostReport
        /\ (oldest_parsed_value = 0
              \/ current_block_timestamp = oldest_parsed_block_timestamp))
        => pc = "aborted"

\* C7, amended: when the oldest sampled value is 0 or the oldest timestamp
\* is 0 the report is skipped without any failure; when both are positive
\* and the elapsed days are 0 the computation fails with a division error
\* that ends the script; in neither case is a result printed, and a printed
\* result always has non-zero elapsed days and finite numbers.
C7_DivisionGuard ==
    PostReport =>
        /\ (oldest_parsed_value = 0 \/ oldest_parsed_block_timestamp = 0)
            => (pc # "aborted" /\ ~HasReport)
        /\ (oldest_parsed_value > 0 /\ oldest_parsed_block_timestamp > 0
              /\ current_block_timestamp = oldest_parsed_block_timestamp)
            => (pc = "aborted" /\ ~HasReport)
        /\ \A j \in 1..Len(out) : out[j].kind = "report"
            => /\ out[j].days[1] # 0 /\ out[j].days[2] > 0
               /\ out[j].apr[2] > 0

\* Only the head block was sampled: the report divides by zero elapsed days.
C7_Witness ==
    /\ pc = "aborted"
    /\ idx >= 1
    /\ Len(samples) = 1
    /\ oldest_parsed_value > 0
    /\ current_block_timestamp = oldest_parsed_block_timestamp

\* C8: once a walk has recorded samples, current_value is the value of the
\* first sample and oldest_parsed_value / oldest_parsed_block_timestamp are
\* those of the last one; a printed report has gain = first - last value in
\* raw units, elapsed = (head timestamp - last sample's timestamp) / 86400
\* and rate = gain / oldest / elapsed * 365.  Samples 100, 90, 80 at T, T-S,
\* T-2S (S = one day) give gain 20, elapsed 2 days and rate 20/80/2*365.
C8_AccumulatorAndReport ==
    /\ samples # <<>>
        => /\ current_value = samples[1].value
           /\ oldest_parsed_value = Last(samples).value
           /\ oldest_parsed_block_timestamp = Last(samples).timestamp
    /\ \A j \in 1..Len(out) : out[j].kind = "report"
        => /\ samples # <<>>
           /\ LET first == samples[1]
                  last == Last(samples)
                  elapsed == current_block_timestamp - last.timestamp
                  gain == first.value - last.value
              IN  /\ out[j].gain = gain
                  /\ out[j].days[1] * 86400 = elapsed * out[j].days[2]
                  /\ out[j].apr = Mul(Rat(gain * 365, last.value), Rat(86400, elapsed))
                  /\ ( /\ Len(samples) = 3
                       /\ samples[1].value = 100 /\ samples[2].value = 90
                       /\ samples[3].value = 80
                       /\ samples[1].timestamp = current_block_timestamp
                       /\ samples[3].timestamp = current_block_timestamp - 2 * 86400 )
                      => /\ out[j].gain = 20
                         /\ out[j].days = <<2, 1>>
                         /\ out[j].apr = <<365, 8>>

\* The end-to-end example: samples 100, 90, 80 and their report.
C8_Witness ==
    /\ pc = "next"
    /\ Len(samples) = 3
    /\ samples[1].value = 100 /\ samples[2].value = 90 /\ samples[3].value = 80
    /\ samples[1].timestamp = current_block_timestamp
    /\ samples[2].timestamp = current_block_timestamp - 86400
    /\ samples[3].timestamp = current_block_timestamp - 2 * 86400
    /\ HasReport
    /\ Last(out).gain = 20

\* C9 as stated: during the walks, every remote query is issued after a
\* sleep (a cooldown, or a backoff, which contains one) that followed the
\* previous query.
C9_CooldownBeforeEveryQuery ==
    (pc = "call" /\ idx >= 1) => slept # <<>>

\* C9, amended: a cooldown sleep precedes the first query of every block of
\* a walk (so it separates one block's queries from the next block's, one
\* address's from the next address's, and the head resolution from the
\* first walk); a retry after a rate limit is preceded by the backoff sleep
\* alone; the other queries (the balance and value reads of a block, a
\* retry after an unrecognized error) are issued with no cooldown sleep
\* since the previous query.
C9_CooldownBetweenBlocks ==
    (pc = "call" /\ idx >= 1)
        => IF attempt = 1 /\ fn = "get_block_timestamp"
           THEN slept # <<>> /\ Last(slept) = QUERY_COOLDOWN
           ELSE IF attempt > 1 /\ IsRateLimit(Last(resps))
           THEN slept = <<(attempt - 1) * 300 + QUERY_COOLDOWN>>
           ELSE \A j \in 1..Len(slept) : slept[j] # QUERY_COOLDOWN

\* The second block of a walk is about to be read, after the cooldown.
C9_Witness ==
    /\ pc = "call"
    /\ fn = "get_block_timestamp"
    /\ attempt = 1
    /\ Len(samples) = 1
    /\ slept = <<QUERY_COOLDOWN>>

C11_ReportIffSample ==
    (idx >= 1 /\ pc \in {"next", "done"})
        => (HasReport <=> samples # <<>>)

\* C11, amended: the report of a pair is printed exactly when the walk
\* recorded a sample, the timestamp read of the oldest sampled block did not
\* return 0 and that timestamp differs from the head timestamp; with a
\* sample whose timestamp equals the head timestamp the script ends on a
\* division error instead; a walk with no sample prints no report.
C11_ReportIffDatedSample ==
    PostReport =>
        LET dated == samples # <<>> /\ Last(samples).timestamp # 0
        IN  /\ HasReport <=>
                (dated /\ Last(samples).timestamp # current_block_timestamp)
            /\ pc = "aborted" <=>
                (dated /\ Last(samples).timestamp = current_block_timestamp)
            /\ samples = <<>> => ~HasReport

\* Two samples were recorded, the timestamp of the older one was read as 0,
\* and the walk ended without a report.
C11_Witness ==
    /\ pc = "next"
    /\ idx >= 1
    /\ Len(samples) = 2
    /\ samples[1].timestamp # 0
    /\ samples[2].timestamp = 0
    /\ ~HasReport

\* C12 as stated: a rate-limit signal at any attempt is followed by another
\* attempt of the same read.
C12_BackoffThenRetry ==
    (resps # <<>> /\ IsRateLimit(Last(resps))) => pc = "call"

\* C12, amended: on a rate-limit signal at attempt n the helper sleeps
\* n*30 s + cooldown; for n = 1, 2 it then retries the read; for n = 3 it
\* then returns 0 without another attempt.
C12_BackoffThenRetryOrGiveUp ==
    (resps # <<>> /\ IsRateLimit(Last(resps)))
        => LET n == Len(resps)
           IN  /\ sleeps # <<>>
               /\ Last(sleeps) = n * 300 + QUERY_COOLDOWN
               /\ n < 3 => (pc = "call" /\ attempt = n + 1
                             /\ slept = <<n * 300 + QUERY_COOLDOWN>>)
               /\ n = 3 => (pc # "call" /\ ret = 0)
               /\ (n = 3 /\ Returned) => slept = <<3 * 300 + QUERY_COOLDOWN>>

\* Rate-limited three times: three sleeps, the last one followed by the
\* return.
C12_Witness ==
    /\ Returned
    /\ fn = "get_withdraw_amount"
    /\ Len(resps) = 3
    /\ \A j \in 1..3 : IsRateLimit(resps[j])
    /\ sleeps = <<305, 605, 905>>
    /\ ret = 0

\* An error that is no rate limit, no decode failure and carries no
\* recognized no-data code.
IsUnrecognized(r) ==
    ~r.ok /\ ~IsRateLimit(r) /\ ~IsDecodeFailure(r) /\ ~HasNoDataCode(r)

\* C13: on an unrecognized error get_block_timestamp returns 0 at once;
\* get_shares_balance and get_withdraw_amount retry at once without sleeping
\* and return 0 once the third attempt has failed that way; a helper whose
\* three attempts are exhausted returns 0; a helper never ends the script.
C13_UnrecognizedErrorsReturnZero ==
    [][ /\ (resps' # <<>> /\ IsUnrecognized(Last(resps')))
            => /\ fn' = "get_block_timestamp" => (pc' # "call" /\ ret' = 0)
               /\ (fn' # "get_block_timestamp" /\ Len(resps') < 3)
                    => (pc' = "call" /\ attempt' = Len(resps') + 1
                        /\ slept' = <<>> /\ sleeps' = sleeps)
               /\ Len(resps') = 3 => (pc' # "call" /\ ret' = 0)
        /\ (Len(resps') = 3 /\ (IsRateLimit(Last(resps')) \/ IsUnrecognized(Last(resps'))))
            => (pc' # "call" /\ ret' = 0)
        /\ pc = "call" => pc' \in {"call", ret_to}
      ]_vars

\* get_shares_balance failed three times with unrecognized errors.
C13_Witness ==
    /\ Returned
    /\ fn = "get_shares_balance"
    /\ Len(resps) = 3
    /\ \A j \in 1..3 : IsUnrecognized(resps[j])
    /\ sleeps = <<>>
    /\ ret = 0

\* C14: the blocks read for a pair are a contiguous prefix of head, head-S,
\* head-2S, ...: whenever a read helper runs or has just returned, every
\* newer block of the sequence has a recorded sample (so nothing is read
\* below a block that stopped the walk), and the redemption-value read runs
\* only on a positive share balance of the same block.
C14_ContiguousPrefix ==
    /\ \A j \in 1..Len(samples) :
            samples[j].block = current_block - (j - 1) * 7200
    /\ (idx >= 1 /\ pc \in {"call", "ts_ret", "shares_ret", "withdraw_ret"})
        => /\ fn_block = current_block - Len(samples) * 7200
           /\ fn_block = block_number
           /\ fn = "get_withdraw_amount"
                => (shares_balance > 0 /\ shares_balance = ChainShares(idx))
    /\ (idx >= 1 /\ WalkOver) => Len(samples) <= StrideIndex(current_block, block_number) + 1

\* The redemption value of the third block is being read after two samples.
C14_Witness ==
    /\ pc = "call"
    /\ fn = "get_withdraw_amount"
    /\ Len(samples) = 2
    /\ fn_block = current_block - 2 * 7200

\* Blocks of the sequence b, b-S, b-2S, ... that are positive.
BlocksFrom(b) == (b + 7199) \div 7200

\* An upper bound on the number of steps the script can still take: the
\* pairs not yet started, the blocks of the walk not yet visited, and the
\* reads and attempts left for the current block.
StepsLeft ==
    LET pair_cost == 12 * BlocksFrom(current_block) + 3
        rest == (NumPairs - idx) * pair_cost + 1
        in_block ==
            CASE pc = "call" /\ fn = "get_block_timestamp" -> 13 - attempt
              [] pc = "ts_ret" -> 9
              [] pc = "call" /\ fn = "get_shares_balance" -> 9 - attempt
              [] pc = "shares_ret" -> 5
              [] pc = "call" /\ fn = "get_withdraw_amount" -> 5 - attempt
              [] pc = "withdraw_ret" -> 1
              [] OTHER -> 0
    IN  CASE pc = "start" -> NumPairs * (12 * (MaxStrides + 2) + 3) + 6
          [] pc \in {"done", "aborted"} -> 0
          [] pc = "call" /\ ret_to = "head_ret" -> rest + 5 - attempt
          [] pc = "head_ret" -> rest + 1
          [] pc = "next" -> rest
          [] pc = "report" -> rest + 1
          [] OTHER -> rest + 1 + in_block + 12 * (BlocksFrom(block_number) - 1)

\* C15: every walk terminates: the blocks visited by a walk are positive
\* and go down from the head by exactly the stride of 7200, a walk records
\* at most ceil(head / stride) samples, and the script ends whatever the
\* remote answers: every step lowers a non-negative bound on the steps
\* left, and the script is always at a position that has a next step or at
\* its end.
C15_WalksTerminate ==
    /\ [](idx >= 1
            => /\ block_number > 0
               /\ block_number <= current_block
               /\ (current_block - block_number) % 7200 = 0
               /\ Len(samples) <= BlocksFrom(current_block))
    /\ [](StepsLeft >= 0)
    /\ [](CASE pc = "call" ->
                    /\ fn \in {"get_block_timestamp", "get_shares_balance",
                                "get_withdraw_amount"}
                    /\ attempt \in 1..3
             [] pc = "next" -> idx \in 0..NumPairs
             [] OTHER -> pc \in {"start", "head_ret", "ts_ret", "shares_ret",
                                  "withdraw_ret", "report", "done", "aborted"})
    /\ [][ /\ (idx' = idx /\ block_number' # block_number)
                => block_number' = block_number - 7200
           /\ StepsLeft' < StepsLeft
         ]_vars

\* A walk that sampled every block down to the last positive one, and ended.
C15_Witness ==
    /\ pc = "next"
    /\ idx = NumPairs
    /\ Len(samples) = BlocksFrom(current_block)
    /\ Len(samples) >= 2
    /\ block_number - 7200 <= 0

\* The age at which a block ends the walk, for a lookback of n days.
LookbackBound(n) == (n + 1) * 86400 + 1000

\* The walk was ended by the lookback test on the block's timestamp.
StoppedByAge == pc = "report" /\ fn = "get_block_timestamp"

\* C16: with MAX_DAYS_TO_PARSE = 0 a walk is never ended by a block's age;
\* with MAX_DAYS_TO_PARSE = N > 0 the step that receives a block's timestamp
\* ends the walk exactly when the timestamp lies (N+1)*86400 + 1000 seconds
\* or more before the head timestamp, before any balance or value read of
\* that block and without recording or printing anything; so no recorded
\* sample is that old.
C16_MaximumLookback ==
    /\ [](StoppedByAge
            => /\ max_days > 0
               /\ current_block_timestamp - block_timestamp >= LookbackBound(max_days)
               /\ resps # <<>> /\ fn_block = block_number
               /\ \A j \in 1..Len(samples) : samples[j].block # block_number)
    /\ [](max_days > 0
            => \A j \in 1..Len(samples) :
                 current_block_timestamp - samples[j].timestamp < LookbackBound(max_days))
    /\ [][pc = "ts_ret"
            => IF max_days > 0
                  /\ current_block_timestamp - ret >= LookbackBound(max_days)
               THEN /\ pc' = "report"
                    /\ samples' = samples /\ out' = out /\ acc' = acc
                    /\ resps' = resps
               ELSE pc' = "call" /\ fn' = "get_shares_balance"
         ]_vars

\* With a lookback of one day, the walk sampled three blocks and was ended
\* by the age of the fourth, whose timestamp was read from the chain.
C16_Witness ==
    /\ StoppedByAge
    /\ max_days = 1
    /\ Len(samples) = 3
    /\ ret = ChainTimestamp(block_number)
    /\ current_block_timestamp - ret = 3 * 86400

\* The four ways a share-balance read comes back as 0.
GenuineZero == Len(resps) = 1 /\ resps[1].ok /\ resps[1].val = 0
DecodeFailed == resps # <<>> /\ IsDecodeFailure(Last(resps))
RateLimitedOut == Len(resps) = 3 /\ \A j \in 1..3 : IsRateLimit(resps[j])
UnrecognizedOut == Len(resps) = 3 /\ \A j \in 1..3 : IsUnrecognized(resps[j])

\* What the sampler shows: its output, its accumulator and samples, and
\* where it is in the walks.
observable == <<out, acc, samples, idx, head, block_number, block_timestamp>>

\* C17: a share-balance read that returned a genuine zero, hit a decode
\* failure, was rate-limited three times or failed three times with an
\* unrecognized error hands the same value 0 to the sampler; the attempts
\* of the read leave everything observable unchanged, and the step that
\* consumes the 0 ends the walk with an outcome that is a function of the
\* 0 and of what was observable before the read, not of the responses: the
\* four cases cannot be told apart by output, accumulator or stop.
C17_ZeroConflation ==
    /\ []((fn = "get_shares_balance" /\ pc # "call"
            /\ (GenuineZero \/ DecodeFailed \/ RateLimitedOut \/ UnrecognizedOut))
            => ret = 0)
    /\ [][ /\ (pc = "call" /\ fn = "get_shares_balance")
                => /\ observable' = observable
                   /\ shares_balance' = shares_balance
                   /\ withdraw_amount' = withdraw_amount
           /\ (pc = "shares_ret" /\ ret = 0)
                => /\ observable' = observable
                   /\ shares_balance' = 0
                   /\ withdraw_amount' = withdraw_amount
                   /\ pc' = "report"
         ]_vars

\* The walk stopped on a share balance that was rate-limited three times,
\* with nothing printed for the block.
C17_Witness ==
    /\ pc = "report"
    /\ fn = "get_shares_balance"
    /\ RateLimitedOut
    /\ shares_balance = 0
    /\ Len(samples) = 1
    /\ Len(out) = 2

C19_AccumulatorIsolation ==
    /\ []((idx >= 1 /\ samples = <<>>) => acc = <<0, 0, 0>>)
    /\ []((idx >= 1 /\ samples # <<>>)
            => /\ \A j \in 1..Len(samples) : samples[j].value = ChainValue(idx, j - 1)
               /\ current_value = ChainValue(idx, 0)
               /\ oldest_parsed_value = ChainValue(idx, Len(samples) - 1)
               /\ \A j \in 1..Len(out) : out[j].kind = "report"
                    => out[j].gain = ChainValue(idx, 0) - ChainValue(idx, Len(samples) - 1))
    /\ [][ /\ idx' # idx => (acc' = <<0, 0, 0>> /\ samples' = <<>>)
           /\ (idx' = idx /\ samples # <<>>) => current_value' = current_value
         ]_vars

\* The second pair's report, computed from its own three samples.
C19_Witness ==
    /\ idx = 2
    /\ pc = "next"
    /\ Len(samples) = 3
    /\ current_value = 200
    /\ HasReport
    /\ Last(out).gain = 40

====
